---- MODULE Spec2Model ----
(***************************************************************************)
(* A model of GSTcheck.py: the Streamlit script that reads a GSTIN column, *)
(* looks every unique identifier up over HTTP, and renders the records as  *)
(* a worksheet.                                                            *)
(*                                                                         *)
(* Python str values are sequences of one-character strings, so that       *)
(* strip(), join(), str() and len() are computed and not assumed.          *)
(* JSON values are tagged records; a Python dict is a function whose       *)
(* domain is its key set.                                                  *)
(***************************************************************************)
EXTENDS Integers, Sequences, FiniteSets, TLC

VARIABLES
    pc,            \* position of the script run
    api_key,       \* st.text_input value (line 60)
    uploaded_file, \* st.file_uploader value (line 62)
    run_btn,       \* st.button value (line 78)
    alert,         \* st.error / st.warning shown by the shell
    gstins,        \* line 75
    has_results,   \* TRUE once line 81 has created the results list
    results,       \* line 81, 88
    idx,           \* loop counter of line 85
    data,          \* line 87: what get_gstin_details returned (or raised)
    net,           \* what the network answered to the request of line 31
    calls,         \* the outbound requests issued so far, in order
    statusLog,     \* the status.info messages of line 86, in order
    progressLog,   \* the progress.progress values of lines 82 and 89, in order
    sheet          \* the worksheet written by lines 93-110

vars == <<pc, api_key, uploaded_file, run_btn, alert, gstins, has_results,
          results, idx, data, net, calls, statusLog, progressLog, sheet>>

-----------------------------------------------------------------------------
(* Bounds of the model *)

\* longest GSTIN column of the batch specification
MaxCells == 3
\* longest GSTIN column of the progress specification
MaxN == 50

-----------------------------------------------------------------------------
(* Python str *)

Whitespace == {" "}

RECURSIVE LStrip(_)
LStrip(s) ==
    IF s # <<>> /\ Head(s) \in Whitespace THEN LStrip(Tail(s)) ELSE s

RECURSIVE RStrip(_)
RStrip(s) ==
    IF s # <<>> /\ s[Len(s)] \in Whitespace
    THEN RStrip(SubSeq(s, 1, Len(s) - 1))
    ELSE s

\* str.strip()
Strip(s) == RStrip(LStrip(s))

DigitChar == <<"0", "1", "2", "3", "4", "5", "6", "7", "8", "9">>

\* str(n) of a non-negative int
RECURSIVE Str(_)
Str(n) ==
    IF n < 10 THEN <<DigitChar[n + 1]>>
    ELSE Str(n \div 10) \o <<DigitChar[(n % 10) + 1]>>

\* sep.join(parts) of a list of str
RECURSIVE Join(_, _)
Join(sep, parts) ==
    IF parts = <<>> THEN <<>>
    ELSE IF Len(parts) = 1 THEN parts[1]
    ELSE parts[1] \o sep \o Join(sep, Tail(parts))

CommaSpace == <<",", " ">>

-----------------------------------------------------------------------------
(* pandas: df["GSTIN"].dropna().astype(str).str.strip().unique().tolist() *)

\* A cell of the column is NaN (an empty cell) or a text value.
NaN == [nan |-> TRUE]
Text(s) == [nan |-> FALSE, val |-> s]

IsNotNa(c) == ~c.nan

\* Series.dropna()
Dropna(col) == SelectSeq(col, IsNotNa)

\* Series.astype(str) on what dropna() left: text cells keep their text
RECURSIVE AsTypeStr(_)
AsTypeStr(col) ==
    IF col = <<>> THEN <<>> ELSE <<Head(col).val>> \o AsTypeStr(Tail(col))

\* Series.str.strip()
RECURSIVE StrStrip(_)
StrStrip(col) ==
    IF col = <<>> THEN <<>> ELSE <<Strip(Head(col))>> \o StrStrip(Tail(col))

Contains(seq, x) == \E i \in 1..Len(seq) : seq[i] = x

RECURSIVE UniqueFrom(_, _)
UniqueFrom(seen, rest) ==
    IF rest = <<>> THEN seen
    ELSE IF Contains(seen, Head(rest)) THEN UniqueFrom(seen, Tail(rest))
    ELSE UniqueFrom(Append(seen, Head(rest)), Tail(rest))

\* Unique with a fault: duplicates are kept
UniqueKeepsAll(col) == col

\* Series.unique(): the distinct values in order of first appearance
Unique(col) == UniqueFrom(<<>>, col)

\* line 75
ExtractGstins(col) == Unique(StrStrip(AsTypeStr(Dropna(col))))

-----------------------------------------------------------------------------
(* JSON values as Python sees them after r.json() *)

JNull == [t |-> "null"]
JBool(b) == [t |-> "bool", v |-> b]
JNum(n) == [t |-> "num", v |-> n]
JStr(s) == [t |-> "str", v |-> s]
JList(l) == [t |-> "list", v |-> l]
JObj(f) == [t |-> "obj", v |-> f]

EmptyDict == JObj(<<>>)
EmptyStr == JStr(<<>>)

\* Python truthiness, as `if resp.get("flag")` and `if cell.value` use it
Truthy(x) ==
    CASE x.t = "null" -> FALSE
      [] x.t = "bool" -> x.v
      [] x.t = "num" -> x.v # 0
      [] x.t = "str" -> x.v # <<>>
      [] x.t = "list" -> x.v # <<>>
      [] x.t = "obj" -> DOMAIN x.v # {}

\* dict.get(key, default) on a dict d
DictGet(d, key, default) ==
    IF key \in DOMAIN d.v THEN d.v[key] ELSE default

-----------------------------------------------------------------------------
(* The Lookup Client: get_gstin_details, lines 27-56 *)

ErrorPrefix == <<"E", "r", "r", "o", "r", ":", " ">>
ApiErrorPrefix == <<"A", "P", "I", " ", "E", "r", "r", "o", "r", " ">>
InvalidNotFound ==
    <<"I", "n", "v", "a", "l", "i", "d", " ", "/", " ",
      "N", "o", "t", " ", "F", "o", "u", "n", "d">>

\* str(e) of the exceptions the try block can raise
TimedOutMsg == <<"t", "i", "m", "e", "d", " ", "o", "u", "t">>
ConnectionMsg == <<"r", "e", "f", "u", "s", "e", "d">>
JSONDecodeError ==
    <<"E", "x", "p", "e", "c", "t", "i", "n", "g", " ", "v", "a", "l", "u", "e">>
AttributeError ==
    <<"n", "o", " ", "a", "t", "t", "r", "i", "b", "u", "t", "e", " ", "g", "e", "t">>
TypeError == <<"e", "x", "p", "e", "c", "t", "e", "d", " ", "s", "t", "r">>

\* The outcome of evaluating Python code: a value, or a raised Exception.
Ok(x) == [ok |-> TRUE, val |-> x]
Raise(m) == [ok |-> FALSE, msg |-> m]

\* What the network does with one request: requests.get raises, or returns
\* a response whose body parses as JSON or does not.
Raised(m) == [kind |-> "exception", msg |-> m]
Response(code, body) == [kind |-> "response", status_code |-> code, body |-> body]
NotJson == [json |-> FALSE]
Json(x) == [json |-> TRUE, val |-> x]
NoNet == [kind |-> "none"]

\* line 29: the credential and the identifier are path segments of the URL
Url(key, gstin) == [key |-> key, id |-> gstin]

\* Requests with a fault: a failed request is sent a second time
RequestsWithRetry(key, gstin, n) ==
    IF n.kind = "exception" \/ n.status_code # 200
    THEN <<Url(key, gstin), Url(key, gstin)>>
    ELSE <<Url(key, gstin)>>

\* line 31: the outbound requests of one call of get_gstin_details
Requests(key, gstin, n) == <<Url(key, gstin)>>

\* an element of nba that str.join accepts
IsStr(x) == x.t = "str"

StrOf(x) == x.v

RECURSIVE MapStrOf(_)
MapStrOf(l) == IF l = <<>> THEN <<>> ELSE <<StrOf(Head(l))>> \o MapStrOf(Tail(l))

RECURSIVE Chars(_)
Chars(s) == IF s = <<>> THEN <<>> ELSE <<<<Head(s)>>>> \o Chars(Tail(s))

\* line 47: ", ".join(x). A list of str is joined; a str is iterated by
\* character; None, a number, or a list holding a non-str raises TypeError.
\* (The responses of this model never carry an object for nba.)
JoinNba(nba) ==
    IF nba.t = "list" /\ \A i \in 1..Len(nba.v) : IsStr(nba.v[i])
    THEN Ok(JStr(Join(CommaSpace, MapStrOf(nba.v))))
    ELSE IF nba.t = "str" THEN Ok(JStr(Join(CommaSpace, Chars(nba.v))))
    ELSE Raise(TypeError)

\* line 44: data.get("pradr", {}).get("addr", "")
PrincipalPlace(d) ==
    LET pradr == DictGet(d, "pradr", EmptyDict)
    IN  IF pradr.t # "obj" THEN Raise(AttributeError)
        ELSE Ok(DictGet(pradr, "addr", EmptyStr))

\* DetailsRecord with a fault: Legal_Name and Trade_Name read each other's key
DetailsRecordSwapped(gstin, d) ==
    LET place == PrincipalPlace(d)
        nature == JoinNba(DictGet(d, "nba", JList(<<>>)))
    IN  IF ~place.ok THEN place
        ELSE IF ~nature.ok THEN nature
        ELSE Ok([GSTIN |-> JStr(gstin),
                 Status |-> DictGet(d, "sts", EmptyStr),
                 Legal_Name |-> DictGet(d, "tradeNam", EmptyStr),
                 Trade_Name |-> DictGet(d, "lgnm", EmptyStr),
                 Constitution |-> DictGet(d, "ctb", EmptyStr),
                 Center_Jurisdiction |-> DictGet(d, "ctj", EmptyStr),
                 State_Jurisdiction |-> DictGet(d, "stj", EmptyStr),
                 Principal_Place |-> place.val,
                 Registration_Date |-> DictGet(d, "rgdt", EmptyStr),
                 Cancellation_Date |-> DictGet(d, "cxdt", EmptyStr),
                 Nature_of_Business |-> nature.val,
                 State_Code |-> DictGet(d, "stcd", EmptyStr),
                 Last_Updated |-> DictGet(d, "lstupdt", EmptyStr)])

\* lines 36-50: the dict display, evaluated top to bottom; d is a dict
DetailsRecord(gstin, d) ==
    LET place == PrincipalPlace(d)
        nature == JoinNba(DictGet(d, "nba", JList(<<>>)))
    IN  IF ~place.ok THEN place
        ELSE IF ~nature.ok THEN nature
        ELSE Ok([GSTIN |-> JStr(gstin),
                 Status |-> DictGet(d, "sts", EmptyStr),
                 Legal_Name |-> DictGet(d, "lgnm", EmptyStr),
                 Trade_Name |-> DictGet(d, "tradeNam", EmptyStr),
                 Constitution |-> DictGet(d, "ctb", EmptyStr),
                 Center_Jurisdiction |-> DictGet(d, "ctj", EmptyStr),
                 State_Jurisdiction |-> DictGet(d, "stj", EmptyStr),
                 Principal_Place |-> place.val,
                 Registration_Date |-> DictGet(d, "rgdt", EmptyStr),
                 Cancellation_Date |-> DictGet(d, "cxdt", EmptyStr),
                 Nature_of_Business |-> nature.val,
                 State_Code |-> DictGet(d, "stcd", EmptyStr),
                 Last_Updated |-> DictGet(d, "lstupdt", EmptyStr)])

\* FailureRecord with a fault: the failure record also carries a Legal_Name
FailureRecordExtraKey(gstin, status) ==
    [GSTIN |-> JStr(gstin), Status |-> JStr(status), Legal_Name |-> EmptyStr]

\* lines 52, 54, 56: {"GSTIN": gstin, "Status": ...}
FailureRecord(gstin, status) == [GSTIN |-> JStr(gstin), Status |-> JStr(status)]

\* lines 31-54: the body of the try statement
TryBlock(gstin, n) ==
    IF n.kind = "exception" THEN Raise(n.msg)
    ELSE IF n.status_code = 200
    THEN IF ~n.body.json THEN Raise(JSONDecodeError)
         ELSE LET resp == n.body.val
              IN  IF resp.t # "obj" THEN Raise(AttributeError)
                  ELSE IF Truthy(DictGet(resp, "flag", JNull))
                  THEN LET d == DictGet(resp, "data", EmptyDict)
                       IN  IF d.t # "obj" THEN Raise(AttributeError)
                           ELSE DetailsRecord(gstin, d)
                  ELSE Ok(FailureRecord(gstin, InvalidNotFound))
    ELSE Ok(FailureRecord(gstin, ApiErrorPrefix \o Str(n.status_code)))

\* get_gstin_details with a fault: only the exceptions of requests.get are
\* caught, those of r.json() and of the field extraction propagate
get_gstin_details_narrow_except(key, gstin, n) ==
    LET r == TryBlock(gstin, n)
    IN  IF r.ok \/ n.kind # "exception" THEN r
        ELSE Ok(FailureRecord(gstin, ErrorPrefix \o r.msg))

\* lines 27-56: every Exception of the try block becomes an "Error:" record
get_gstin_details(key, gstin, n) ==
    LET r == TryBlock(gstin, n)
    IN  IF r.ok THEN r
        ELSE Ok(FailureRecord(gstin, ErrorPrefix \o r.msg))

-----------------------------------------------------------------------------
(* Python float: IEEE 754 binary64, round to nearest even.                  *)
(* A float is [mant, exp] of value mant * 2^exp with 2^52 <= mant < 2^53.   *)
(* The significand does not fit a machine integer of the model checker, so  *)
(* it is a natural number in limbs of LimbBits bits, least significant      *)
(* limb first, without leading zero limbs.                                  *)

\* bits of the significand of a binary64
Precision == 53
\* bits of one limb
LimbBits == 15
Base == 2 ^ LimbBits

RECURSIVE Normalize(_)
Normalize(a) ==
    IF a # <<>> /\ a[Len(a)] = 0 THEN Normalize(SubSeq(a, 1, Len(a) - 1)) ELSE a

\* a * c + carry, for 0 <= c < Base
RECURSIVE MulSmall(_, _, _)
MulSmall(a, c, carry) ==
    IF a = <<>> THEN (IF carry = 0 THEN <<>> ELSE <<carry>>)
    ELSE LET t == Head(a) * c + carry
         IN  <<t % Base>> \o MulSmall(Tail(a), c, t \div Base)

\* (rem * Base^Len(a) + a) divided by d, for 0 <= rem < d <= Base:
\* quotient limbs (not normalized) and remainder
RECURSIVE DivSmall(_, _, _)
DivSmall(a, d, rem) ==
    IF a = <<>> THEN [q |-> <<>>, r |-> rem]
    ELSE LET cur == rem * Base + a[Len(a)]
             lower == DivSmall(SubSeq(a, 1, Len(a) - 1), d, cur % d)
         IN  [q |-> Append(lower.q, cur \div d), r |-> lower.r]

BigDivMod(a, d) ==
    LET dm == DivSmall(a, d, 0) IN [q |-> Normalize(dm.q), r |-> dm.r]

\* a * 2^sh
RECURSIVE BigShl(_, _)
BigShl(a, sh) ==
    IF sh >= LimbBits THEN <<0>> \o BigShl(a, sh - LimbBits)
    ELSE MulSmall(a, 2 ^ sh, 0)

\* floor(a / 2^sh)
RECURSIVE BigShr(_, _)
BigShr(a, sh) ==
    IF a = <<>> THEN <<>>
    ELSE IF sh >= LimbBits THEN BigShr(Tail(a), sh - LimbBits)
    ELSE BigDivMod(a, 2 ^ sh).q

RECURSIVE BigInc(_)
BigInc(a) ==
    IF a = <<>> THEN <<1>>
    ELSE IF Head(a) + 1 < Base THEN <<Head(a) + 1>> \o Tail(a)
    ELSE <<0>> \o BigInc(Tail(a))

RECURSIVE BigInt(_)
BigInt(a) == IF a = <<>> THEN 0 ELSE Head(a) + Base * BigInt(Tail(a))

IsOdd(a) == a # <<>> /\ Head(a) % 2 = 1

RECURSIVE SmallBitLen(_)
SmallBitLen(n) == IF n = 0 THEN 0 ELSE 1 + SmallBitLen(n \div 2)

BitLen(a) ==
    IF a = <<>> THEN 0 ELSE LimbBits * (Len(a) - 1) + SmallBitLen(a[Len(a)])

\* q (rounded up when up) as a float of exponent exp; q has Precision bits,
\* and one more only when the rounding carried out of the top bit
MakeFloat(q, up, exp) ==
    LET m == IF up THEN BigInc(q) ELSE q
    IN  IF BitLen(m) > Precision
        THEN [mant |-> BigShr(m, 1), exp |-> exp + 1]
        ELSE [mant |-> m, exp |-> exp]

\* the least s with k * 2^s >= n
RECURSIVE NormShift(_, _)
NormShift(k, n) == IF k >= n THEN 0 ELSE 1 + NormShift(2 * k, n)

\* k / n of two ints with 1 <= k <= n < Base (line 89 has
\* 1 <= idx <= len(gstins)): the quotient, rounded to nearest, ties to even
TrueDiv(k, n) ==
    LET s == NormShift(k, n)
        dm == BigDivMod(BigShl(<<k>>, s + Precision - 1), n)
        up == 2 * dm.r > n \/ (2 * dm.r = n /\ IsOdd(dm.q))
    IN  MakeFloat(dm.q, up, -(s + Precision - 1))

\* f * c for a float f and an int 1 <= c < Base: the product, rounded to
\* nearest, ties to even
FloatMul(f, c) ==
    LET p == MulSmall(f.mant, c, 0)
        sh == BitLen(p) - Precision
        dm == BigDivMod(p, 2 ^ sh)
        half == 2 ^ (sh - 1)
        up == sh > 0 /\ (dm.r > half \/ (dm.r = half /\ IsOdd(dm.q)))
    IN  MakeFloat(dm.q, up, f.exp + sh)

\* int(f) of a float f >= 0 below 2^31: truncation
IntOfFloat(f) ==
    IF f.exp >= 0 THEN BigInt(BigShl(f.mant, f.exp))
    ELSE BigInt(BigShr(f.mant, -f.exp))

\* line 89: int(idx / len(gstins) * 100)
ProgressValue(k, n) == IntOfFloat(FloatMul(TrueDiv(k, n), 100))

-----------------------------------------------------------------------------
(* The Report Renderer: lines 93-110 *)

\* the keys of the dicts of lines 36-56, in the order the dict displays
\* list them
FieldOrder ==
    <<"GSTIN", "Status", "Legal_Name", "Trade_Name",
      "Constitution", "Center_Jurisdiction", "State_Jurisdiction", "Principal_Place",
      "Registration_Date", "Cancellation_Date", "Nature_of_Business", "State_Code",
      "Last_Updated">>

\* the text of each column name
ColumnText ==
    [GSTIN |-> <<"G", "S", "T", "I", "N">>,
     Status |-> <<"S", "t", "a", "t", "u", "s">>,
     Legal_Name |-> <<"L", "e", "g", "a", "l", "_", "N", "a", "m", "e">>,
     Trade_Name |-> <<"T", "r", "a", "d", "e", "_", "N", "a", "m", "e">>,
     Constitution |-> <<"C", "o", "n", "s", "t", "i", "t", "u", "t", "i", "o", "n">>,
     Center_Jurisdiction |-> <<"C", "e", "n", "t", "e", "r", "_", "J", "u", "r", "i", "s", "d", "i", "c", "t", "i", "o", "n">>,
     State_Jurisdiction |-> <<"S", "t", "a", "t", "e", "_", "J", "u", "r", "i", "s", "d", "i", "c", "t", "i", "o", "n">>,
     Principal_Place |-> <<"P", "r", "i", "n", "c", "i", "p", "a", "l", "_", "P", "l", "a", "c", "e">>,
     Registration_Date |-> <<"R", "e", "g", "i", "s", "t", "r", "a", "t", "i", "o", "n", "_", "D", "a", "t", "e">>,
     Cancellation_Date |-> <<"C", "a", "n", "c", "e", "l", "l", "a", "t", "i", "o", "n", "_", "D", "a", "t", "e">>,
     Nature_of_Business |-> <<"N", "a", "t", "u", "r", "e", "_", "o", "f", "_", "B", "u", "s", "i", "n", "e", "s", "s">>,
     State_Code |-> <<"S", "t", "a", "t", "e", "_", "C", "o", "d", "e">>,
     Last_Updated |-> <<"L", "a", "s", "t", "_", "U", "p", "d", "a", "t", "e", "d">>]

\* the margin added to a column's longest cell (line 110)
ColumnMargin == 2

TrueText == <<"T", "r", "u", "e">>
FalseText == <<"F", "a", "l", "s", "e">>
NoneText == <<"N", "o", "n", "e">>

\* str(cell.value) of a cell holding None, a bool, a number or a str
PyStr(x) ==
    CASE x.t = "null" -> NoneText
      [] x.t = "bool" -> (IF x.v THEN TrueText ELSE FalseText)
      [] x.t = "num" -> Str(x.v)
      [] x.t = "str" -> x.v

\* line 109: len(str(cell.value)) if cell.value else 0
CellLen(x) == IF Truthy(x) THEN Len(PyStr(x)) ELSE 0

RECURSIVE MaxOfSeq(_)
MaxOfSeq(s) ==
    IF Len(s) = 1 THEN s[1]
    ELSE LET m == MaxOfSeq(Tail(s)) IN IF Head(s) >= m THEN Head(s) ELSE m

\* line 93, pd.DataFrame(results): the columns are the keys seen in any
\* record, in order of first appearance (every record lists its keys in the
\* order of FieldOrder)
IsSeen(rs, name) == \E i \in 1..Len(rs) : name \in DOMAIN rs[i]

FrameColumns(rs) ==
    LET Seen(name) == IsSeen(rs, name) IN SelectSeq(FieldOrder, Seen)

\* a cell of the frame: the record's value, or a missing value (written as
\* an empty cell, which openpyxl reads back as None)
FrameCell(r, name) == IF name \in DOMAIN r THEN r[name] ELSE JNull

\* ColumnWidth with a fault: the margin is left out
ColumnWidthNoMargin(cells) ==
    MaxOfSeq([i \in 1..Len(cells) |-> CellLen(cells[i])])

\* lines 109-110 for one column, header cell first
ColumnWidth(cells) ==
    MaxOfSeq([i \in 1..Len(cells) |-> CellLen(cells[i])]) + ColumnMargin

\* lines 93-110: the worksheet GSTIN_Details.  (An empty frame writes no
\* cell; the width openpyxl then records for the empty first column is not
\* part of the model.)
RenderSheet(rs) ==
    LET cols == FrameColumns(rs)
        header == [j \in 1..Len(cols) |-> JStr(ColumnText[cols[j]])]
        rows == [i \in 1..Len(rs) |->
                    [j \in 1..Len(cols) |-> FrameCell(rs[i], cols[j])]]
    IN  [written |-> TRUE,
         columns |-> cols,
         header |-> header,
         rows |-> rows,
         widths |-> [j \in 1..Len(cols) |->
                        ColumnWidth(<<header[j]>> \o
                                    [i \in 1..Len(rs) |-> rows[i][j]])]]

NoSheet == [written |-> FALSE]

-----------------------------------------------------------------------------
(* The Shell and the Batch Runner: lines 59-91 *)

ValidatingPrefix == <<"V", "a", "l", "i", "d", "a", "t", "i", "n", "g", " ">>

\* line 86: f"Validating {g} ({idx}/{len(gstins)})"
StatusMessage(g, i, n) ==
    ValidatingPrefix \o g \o <<" ", "(">> \o Str(i) \o <<"/">> \o Str(n) \o <<")">>

\* st.file_uploader returns None or an uploaded file; pd.read_excel raises
\* on it or returns a frame, a dict from column name to cells.
NoFile == [present |-> FALSE, readable |-> FALSE, df |-> <<>>]
Unreadable == [present |-> TRUE, readable |-> FALSE, df |-> <<>>]
Frame(df) == [present |-> TRUE, readable |-> TRUE, df |-> df]

NoData == Ok(<<>>)

Init ==
    /\ pc = "idle"
    /\ api_key = <<>>
    /\ uploaded_file = NoFile
    /\ run_btn = FALSE
    /\ alert = "none"
    /\ gstins = <<>>
    /\ has_results = FALSE
    /\ results = <<>>
    /\ idx = 0
    /\ data = NoData
    /\ net = NoNet
    /\ calls = <<>>
    /\ statusLog = <<>>
    /\ progressLog = <<>>
    /\ sheet = NoSheet

\* Entered with a fault: the credential is not asked for
EnteredWithoutKey(file, key) == file.present

\* line 64: `if uploaded_file and api_key`
Entered(file, key) == file.present /\ key # <<>>

\* line 71: "GSTIN" in df.columns
HasColumn(df) == "GSTIN" \in DOMAIN df

\* lines 60-83 and 122-123: one run of the script up to the loop, on the
\* credential, the upload and the button state the user supplied
Start(Credentials, Files) ==
    /\ pc = "idle"
    /\ \E key \in Credentials, file \in Files, btn \in BOOLEAN :
        LET entered == Entered(file, key)
            has_column == entered /\ file.readable /\ HasColumn(file.df)
            run == has_column /\ btn
        IN  /\ api_key' = key
            /\ uploaded_file' = file
            /\ alert' = IF entered /\ ~file.readable THEN "read_error"
                        ELSE IF entered /\ ~has_column THEN "missing_column"
                        ELSE IF file.present /\ key = <<>> THEN "missing_key"
                        ELSE "none"
            /\ gstins' = IF has_column THEN ExtractGstins(file.df["GSTIN"]) ELSE <<>>
            /\ run_btn' = run
            /\ has_results' = run
            /\ progressLog' = IF run THEN <<0>> ELSE <<>>
            /\ pc' = IF run THEN "loop"
                     ELSE IF entered /\ ~has_column THEN "stopped"
                     ELSE "done"
    /\ UNCHANGED <<results, idx, data, net, calls, statusLog, sheet>>

\* lines 85-86: the next identifier is taken and announced
StatusInfo ==
    /\ pc = "loop"
    /\ idx < Len(gstins)
    /\ idx' = idx + 1
    /\ statusLog' = Append(statusLog, StatusMessage(gstins[idx + 1], idx + 1, Len(gstins)))
    /\ pc' = "lookup"
    /\ UNCHANGED <<api_key, uploaded_file, run_btn, alert, gstins, has_results,
                   results, data, net, calls, progressLog, sheet>>

\* line 87: get_gstin_details(api_key, g), on whatever the network answers;
\* an exception that leaves the function ends the script run
Lookup(Answers) ==
    /\ pc = "lookup"
    /\ \E n \in Answers :
        /\ net' = n
        /\ calls' = calls \o Requests(api_key, gstins[idx], n)
        /\ data' = get_gstin_details(api_key, gstins[idx], n)
    /\ pc' = IF data'.ok THEN "append" ELSE "crashed"
    /\ UNCHANGED <<api_key, uploaded_file, run_btn, alert, gstins, has_results,
                   results, idx, statusLog, progressLog, sheet>>

\* line 88
AppendResult ==
    /\ pc = "append"
    /\ results' = Append(results, data.val)
    /\ pc' = "progress"
    /\ UNCHANGED <<api_key, uploaded_file, run_btn, alert, gstins, has_results,
                   idx, data, net, calls, statusLog, progressLog, sheet>>

\* line 89
Progress ==
    /\ pc = "progress"
    /\ progressLog' = Append(progressLog, ProgressValue(idx, Len(gstins)))
    /\ pc' = "loop"
    /\ UNCHANGED <<api_key, uploaded_file, run_btn, alert, gstins, has_results,
                   results, idx, data, net, calls, statusLog, sheet>>

\* lines 91-120: the loop is exhausted and the report is written
Render ==
    /\ pc = "loop"
    /\ idx = Len(gstins)
    /\ sheet' = RenderSheet(results)
    /\ pc' = "done"
    /\ UNCHANGED <<api_key, uploaded_file, run_btn, alert, gstins, has_results,
                   results, idx, data, net, calls, statusLog, progressLog>>

-----------------------------------------------------------------------------
(* The inputs the specifications draw from *)

Keys == {<<>>, <<"k">>}

\* cells of the GSTIN column: an empty cell, a whitespace-only cell, and
\* identifiers that differ in case or in surrounding whitespace only
CellValues ==
    {NaN, Text(<<" ">>), Text(<<"a">>), Text(<<"A">>), Text(<<" ", "a", " ">>)}

ColumnsUpTo(n) == UNION {[1..m -> CellValues] : m \in 0..n}

\* the column "1", "2", ..., "n"
NumberedColumn(n) == [i \in 1..n |-> Text(Str(i))]

\* an unreadable upload, and for each column a sheet that has it under the
\* header GSTIN and a sheet that has it under the header gstin
FilesOf(Columns) ==
    {NoFile, Unreadable}
        \cup {Frame([GSTIN |-> c]) : c \in Columns}
        \cup {Frame([gstin |-> c]) : c \in Columns}

Retail == JStr(<<"R", "e", "t", "a", "i", "l">>)
Wholesale == JStr(<<"W", "h", "o", "l", "e", "s", "a", "l", "e">>)
MainSt == JStr(<<"1", " ", "M", "a", "i", "n", " ", "S", "t">>)

\* a data object with every key of lines 38-49
FullData ==
    [sts |-> JStr(<<"A", "c", "t", "i", "v", "e">>),
     lgnm |-> JStr(<<"A", "C", "M", "E", " ", "L", "T", "D">>),
     tradeNam |-> JStr(<<"A", "c", "m", "e">>),
     ctb |-> JStr(<<"P", "r", "i", "v", "a", "t", "e">>),
     ctj |-> JStr(<<"R", "a", "n", "g", "e", " ", "1">>),
     stj |-> JStr(<<"W", "a", "r", "d", " ", "2">>),
     rgdt |-> JStr(<<"0", "1", "/", "0", "7", "/", "2", "0", "1", "7">>),
     cxdt |-> JStr(<<"N", "A">>),
     stcd |-> JStr(<<"2", "7">>),
     lstupdt |-> JStr(<<"0", "5", "/", "0", "5", "/", "2", "0", "2", "4">>),
     pradr |-> JObj([addr |-> MainSt]),
     nba |-> JList(<<Retail, Wholesale>>)]

Restrict(f, S) == [k \in S |-> f[k]]

\* f with f[k] replaced by x
With(f, k, x) == [f EXCEPT ![k] = x]

\* data objects of the documented shape: any of the keys may be missing,
\* pradr is an object with or without addr, nba is a list of str
ShapedData ==
    {JObj(Restrict(FullData, S)) : S \in SUBSET DOMAIN FullData}
        \cup {JObj(With(FullData, "pradr", EmptyDict)),
              JObj(With(FullData, "nba", JList(<<>>))),
              JObj(With(FullData, "nba", JList(<<Retail>>)))}

\* data values of another shape
UnshapedData ==
    {JNull, JList(<<>>), JStr(<<"x">>),
     JObj(With(FullData, "pradr", JNull)),
     JObj(With(FullData, "pradr", MainSt)),
     JObj(With(FullData, "nba", JNull)),
     JObj(With(FullData, "nba", JList(<<Retail, JNum(7)>>))),
     JObj(With(FullData, "nba", JStr(<<"a", "b">>))),
     JObj(With(FullData, "sts", JNull)),
     JObj(With(FullData, "stcd", JNum(0))),
     JObj(With(FullData, "stcd", JNum(27)))}

TruthyFlags == {JBool(TRUE), JNum(1), JStr(<<"Y">>)}
FalsyFlags == {JBool(FALSE), JNull, JNum(0), EmptyStr}

\* every answer of the network the lookup specification considers
AllAnswers ==
    {Raised(TimedOutMsg), Raised(ConnectionMsg)}
        \cup {Response(c, b) : c \in {204, 404, 500},
                               b \in {NotJson, Json(JObj([flag |-> JBool(TRUE),
                                                          data |-> JObj(FullData)]))}}
        \cup {Response(200, NotJson)}
        \cup {Response(200, Json(x)) : x \in {JNull, JList(<<>>), JStr(<<"x">>), JNum(1)}}
        \cup {Response(200, Json(EmptyDict)),
              Response(200, Json(JObj([data |-> JObj(FullData)]))),
              Response(200, Json(JObj([flag |-> JBool(TRUE)])))}
        \cup {Response(200, Json(JObj([flag |-> f]))) : f \in FalsyFlags}
        \cup {Response(200, Json(JObj([flag |-> JBool(FALSE), data |-> JObj(FullData)])))}
        \cup {Response(200, Json(JObj([flag |-> f, data |-> d]))) :
                f \in TruthyFlags, d \in ShapedData \cup UnshapedData}

\* the answers of the batch specification: one of each kind of outcome, a
\* success on partial data included
BatchAnswers ==
    {Raised(TimedOutMsg),
     Response(500, NotJson),
     Response(200, NotJson),
     Response(200, Json(JObj([flag |-> JBool(FALSE)]))),
     Response(200, Json(JObj([flag |-> JBool(TRUE), data |-> JObj(FullData)]))),
     Response(200, Json(JObj([flag |-> JBool(TRUE),
                              data |-> JObj(With(FullData, "pradr", JNull))]))),
     Response(200, Json(JObj([flag |-> JBool(TRUE),
                              data |-> JObj(Restrict(FullData, {"sts", "stcd"}))])))}

\* the answer of the progress specification
NotFoundAnswers == {Response(200, Json(JObj([flag |-> JBool(FALSE)])))}

-----------------------------------------------------------------------------
(* The specifications *)

\* batches of up to MaxCells cells, one answer of each kind
Next ==
    \/ Start(Keys, FilesOf(ColumnsUpTo(MaxCells)))
    \/ StatusInfo
    \/ Lookup(BatchAnswers)
    \/ AppendResult
    \/ Progress
    \/ Render

Spec == Init /\ [][Next]_vars

\* one identifier, every answer
NextLookup ==
    \/ Start(Keys, FilesOf({<<>>, <<Text(<<"a">>)>>, <<Text(<<" ", "2", "7", "A", " ">>)>>}))
    \/ StatusInfo
    \/ Lookup(AllAnswers)
    \/ AppendResult
    \/ Progress
    \/ Render

SpecLookup == Init /\ [][NextLookup]_vars

\* up to MaxN distinct identifiers, one answer
NextProgress ==
    \/ Start(Keys, FilesOf({NumberedColumn(n) : n \in 0..MaxN}))
    \/ StatusInfo
    \/ Lookup(NotFoundAnswers)
    \/ AppendResult
    \/ Progress
    \/ Render

SpecProgress == Init /\ [][NextProgress]_vars

-----------------------------------------------------------------------------
(* Vocabulary of the properties, stated without the operators of the model *)

\* the cells of the GSTIN column of the upload, when it has one
GstinCells ==
    IF uploaded_file.present /\ uploaded_file.readable
       /\ "GSTIN" \in DOMAIN uploaded_file.df
    THEN uploaded_file.df["GSTIN"]
    ELSE <<>>

TextCells == {i \in 1..Len(GstinCells) : ~GstinCells[i].nan}

MinOf(S) == CHOOSE x \in S : \A y \in S : x <= y
MaxOf(S) == CHOOSE x \in S : \A y \in S : x >= y

\* s without its leading and trailing spaces
Trimmed(s) ==
    LET solid == {i \in 1..Len(s) : s[i] # " "}
    IN  IF solid = {} THEN <<>> ELSE SubSeq(s, MinOf(solid), MaxOf(solid))

TrimmedAt(i) == Trimmed(GstinCells[i].val)

TrimmedIds == {TrimmedAt(i) : i \in TextCells}

\* s in lower case (the identifiers of the model have one upper-case letter)
Folded(s) == [i \in 1..Len(s) |-> IF s[i] = "A" THEN "a" ELSE s[i]]

StartsWith(s, prefix) ==
    Len(s) >= Len(prefix) /\ SubSeq(s, 1, Len(prefix)) = prefix

\* the run went through the loop and wrote the report
Completed == pc = "done" /\ has_results

RecordsOf(g) == {k \in 1..Len(results) : results[k]["GSTIN"] = JStr(g)}
CallsOf(g) == {k \in 1..Len(calls) : calls[k].id = g}

\* the failure record of identifier g with the given status text
TwoKeyRecord(g, status) == [GSTIN |-> JStr(g), Status |-> JStr(status)]

IsErrorRecord(r, g) ==
    /\ DOMAIN r = {"GSTIN", "Status"}
    /\ r["GSTIN"] = JStr(g)
    /\ r["Status"].t = "str"
    /\ StartsWith(r["Status"].v, <<"E", "r", "r", "o", "r", ":", " ">>)

-----------------------------------------------------------------------------
(* C1 *)

\* C1: after a completed run the ResultSet has exactly as many records as
\* there are distinct, non-empty, trimmed identifiers in the GSTIN column,
\* and no identifier appears in two records; blank and whitespace-only
\* cells contribute no record.
C1_OneRecordPerNonEmptyId ==
    Completed =>
        /\ Len(results) = Cardinality(TrimmedIds \ {<<>>})
        /\ \A i, j \in 1..Len(results) :
              i # j => results[i]["GSTIN"] # results[j]["GSTIN"]

-----------------------------------------------------------------------------
(* C2 *)

\* C2 as stated: two input identifiers that are equal after trimming and
\* ignoring letter case are the same identifier: together they produce one
\* lookup and one record.
C2_CaseFoldedDedup ==
    Completed =>
        \A i, j \in TextCells :
            Folded(TrimmedAt(i)) = Folded(TrimmedAt(j)) =>
                /\ Cardinality(RecordsOf(TrimmedAt(i)) \cup RecordsOf(TrimmedAt(j))) = 1
                /\ Cardinality(CallsOf(TrimmedAt(i)) \cup CallsOf(TrimmedAt(j))) = 1

\* C2 amended: deduplication is exact after trimming.  Two input
\* identifiers that are equal after trimming produce one lookup and one
\* record between them; two that differ after trimming, in letter case or
\* otherwise, produce a lookup and a record each.
C2_TrimmedExactDedup ==
    Completed =>
        \A i, j \in TextCells :
            /\ Cardinality(RecordsOf(TrimmedAt(i))) = 1
            /\ Cardinality(CallsOf(TrimmedAt(i))) = 1
            /\ TrimmedAt(i) = TrimmedAt(j) =>
                  /\ RecordsOf(TrimmedAt(i)) = RecordsOf(TrimmedAt(j))
                  /\ CallsOf(TrimmedAt(i)) = CallsOf(TrimmedAt(j))
            /\ TrimmedAt(i) # TrimmedAt(j) =>
                  /\ RecordsOf(TrimmedAt(i)) \cap RecordsOf(TrimmedAt(j)) = {}
                  /\ CallsOf(TrimmedAt(i)) \cap CallsOf(TrimmedAt(j)) = {}

\* a completed run on a column holding "a", " a " and "A": the first two
\* share a record, the third has its own
C2_Witness ==
    /\ Completed
    /\ \E i, j, k \in TextCells :
          /\ i # j
          /\ GstinCells[i].val # GstinCells[j].val
          /\ TrimmedAt(i) = TrimmedAt(j)
          /\ TrimmedAt(k) # TrimmedAt(i)
          /\ Folded(TrimmedAt(k)) = Folded(TrimmedAt(i))
    /\ Len(results) = 2

-----------------------------------------------------------------------------
(* C3 *)

\* C3: when the column holds no valid identifier (only empty or
\* whitespace-only cells), no lookup call is made and the ResultSet stays
\* empty.
C3_NoValidIdNoLookup ==
    (\A i \in TextCells : TrimmedAt(i) = <<>>) => (calls = <<>> /\ results = <<>>)

-----------------------------------------------------------------------------
(* C4 *)

\* the first cell whose trimmed text is g
FirstPos(g) == MinOf({i \in TextCells : TrimmedAt(i) = g})

\* C4: the lookup is invoked once per unique identifier, one at a time, in
\* order of first appearance, each invocation sending one request at most;
\* the k-th record is the result of the k-th unique identifier; a lookup
\* never starts before the result of the previous one has been appended.
C4_SequentialOncePerId ==
    /\ \A k \in 1..Len(gstins) : gstins[k] \in TrimmedIds
    /\ \A k, l \in 1..Len(gstins) : k < l => FirstPos(gstins[k]) < FirstPos(gstins[l])
    /\ Len(calls) <= Len(gstins)
    /\ \A k \in 1..Len(calls) : calls[k] = [key |-> api_key, id |-> gstins[k]]
    /\ \A k \in 1..Len(results) : results[k]["GSTIN"] = JStr(gstins[k])
    /\ Len(results) <= Len(calls)
    /\ Len(calls) <= Len(results) + 1
    /\ pc = "lookup" => Len(calls) = Len(results)
    /\ Completed =>
          /\ Len(calls) = Len(gstins)
          /\ Len(results) = Len(gstins)
          /\ \A g \in TrimmedIds : Cardinality(CallsOf(g)) = 1

\* a completed run over two unique identifiers, the first of them met twice
\* in the column, whose first lookup failed and whose second succeeded
C4_Witness ==
    /\ Completed
    /\ Len(results) = 2
    /\ Cardinality(TextCells) = 3
    /\ TrimmedAt(1) = TrimmedAt(2)
    /\ IsErrorRecord(results[1], gstins[1])
    /\ Cardinality(DOMAIN results[2]) = 13

-----------------------------------------------------------------------------
(* C5 *)

\* C5: a failed lookup never aborts the batch.  Whatever the network
\* answers, the lookup returns a record and does not raise, the record is
\* appended, and the run goes on to every remaining identifier.
C5_FailureNeverAborts ==
    /\ pc # "crashed"
    /\ data.ok
    /\ pc \in {"append", "progress"} => {"GSTIN", "Status"} \subseteq DOMAIN data.val
    /\ pc = "progress" => results[Len(results)] = data.val
    /\ (has_results /\ pc = "loop" /\ idx < Len(gstins)) => ENABLED StatusInfo
    /\ Completed => Len(results) = Len(gstins)

\* a completed run of three lookups of which the first answered with an
\* unparsable body, the second with a failure code, and the last timed out
C5_Witness ==
    /\ Completed
    /\ Len(results) = 3
    /\ results[1] = TwoKeyRecord(gstins[1], ErrorPrefix \o JSONDecodeError)
    /\ results[2] = TwoKeyRecord(gstins[2],
                                 <<"A", "P", "I", " ", "E", "r", "r", "o", "r", " ", "5", "0", "0">>)
    /\ net = Raised(TimedOutMsg)

-----------------------------------------------------------------------------
(* C6 *)

ErrorText == <<"E", "r", "r", "o", "r", ":", " ">>
ApiErrorText == <<"A", "P", "I", " ", "E", "r", "r", "o", "r", " ">>
NotFoundText ==
    <<"I", "n", "v", "a", "l", "i", "d", " ", "/", " ", "N", "o", "t", " ", "F", "o", "u", "n", "d">>

\* the decimal text of the response codes of the model
CodeText(c) ==
    CASE c = 204 -> <<"2", "0", "4">>
      [] c = 404 -> <<"4", "0", "4">>
      [] c = 500 -> <<"5", "0", "0">>

\* the identifier the last lookup was about
Current == gstins[idx]

Answered == net.kind = "response"
Answered200 == Answered /\ net.status_code = 200
AnsweredObject == Answered200 /\ net.body.json /\ net.body.val.t = "obj"

FlagFalsyOrAbsent ==
    \/ "flag" \notin DOMAIN net.body.val.v
    \/ net.body.val.v["flag"] \in {JBool(FALSE), JNull, JNum(0), JStr(<<>>)}

\* the data object of the answer; an absent data is an empty object
AnswerData ==
    IF "data" \in DOMAIN net.body.val.v THEN net.body.val.v["data"] ELSE JObj(<<>>)

IsListOfStr(x) == x.t = "list" /\ \A i \in 1..Len(x.v) : x.v[i].t = "str"

\* a data object whose pradr, when present, is an object, and whose nba,
\* when present, is a list of str
Shaped(d) ==
    /\ d.t = "obj"
    /\ "pradr" \in DOMAIN d.v => d.v["pradr"].t = "obj"
    /\ "nba" \in DOMAIN d.v => IsListOfStr(d.v["nba"])

\* a data value on which the field extraction raises
Unextractable(d) ==
    \/ d.t # "obj"
    \/ "pradr" \in DOMAIN d.v /\ d.v["pradr"].t # "obj"
    \/ "nba" \in DOMAIN d.v /\ ~IsListOfStr(d.v["nba"]) /\ d.v["nba"].t # "str"

\* C6: every failed lookup yields a record with exactly the keys GSTIN (the
\* identifier as sent) and Status.  Status is "Error: <message>" for a
\* transport failure or any exception raised during the call,
\* "API Error <code>" for a response code that is not the success code 200,
\* and "Invalid / Not Found" for a 200 response whose flag is falsy or
\* absent.
C6_FailureRecords ==
    net.kind # "none" =>
        /\ data.ok
        /\ net.kind = "exception" =>
              data.val = TwoKeyRecord(Current, ErrorText \o net.msg)
        /\ (Answered /\ net.status_code # 200) =>
              data.val = TwoKeyRecord(Current, ApiErrorText \o CodeText(net.status_code))
        /\ (AnsweredObject /\ FlagFalsyOrAbsent) =>
              data.val = TwoKeyRecord(Current, NotFoundText)
        /\ (Answered200 /\ ~net.body.json) => IsErrorRecord(data.val, Current)
        /\ (Answered200 /\ net.body.json /\ net.body.val.t # "obj") =>
              IsErrorRecord(data.val, Current)
        /\ (AnsweredObject /\ ~FlagFalsyOrAbsent /\ Unextractable(AnswerData)) =>
              IsErrorRecord(data.val, Current)

\* a lookup of " 27A " sent as "27A" was answered 200 with an object that
\* has no flag, and returned
C6_Witness ==
    /\ pc = "append"
    /\ Current = <<"2", "7", "A">>
    /\ AnsweredObject
    /\ "flag" \notin DOMAIN net.body.val.v
    /\ "data" \in DOMAIN net.body.val.v
    /\ DOMAIN data.val = {"GSTIN", "Status"}

-----------------------------------------------------------------------------
(* C7 *)

\* the source key of each output field that is copied from the data object
SourceKey ==
    [Status |-> "sts", Legal_Name |-> "lgnm", Trade_Name |-> "tradeNam",
     Constitution |-> "ctb", Center_Jurisdiction |-> "ctj",
     State_Jurisdiction |-> "stj", Registration_Date |-> "rgdt",
     Cancellation_Date |-> "cxdt", State_Code |-> "stcd",
     Last_Updated |-> "lstupdt"]

\* the items of a list of at most two str, separated by ", "
CommaJoined(l) ==
    IF l = <<>> THEN <<>>
    ELSE IF Len(l) = 1 THEN l[1].v
    ELSE l[1].v \o <<",", " ">> \o l[2].v

TruthyFlag ==
    /\ "flag" \in DOMAIN net.body.val.v
    /\ net.body.val.v["flag"] \in {JBool(TRUE), JNum(1), JStr(<<"Y">>)}

\* C7: for a 200 response with a truthy flag and a data object of the
\* documented shape, the lookup returns a record of all thirteen fields,
\* each copied from its source key; a missing key gives the empty string,
\* Principal_Place is addr of the nested pradr object, and
\* Nature_of_Business is nba joined with ", ", empty when nba is absent or
\* empty.
C7_SuccessRecord ==
    (AnsweredObject /\ TruthyFlag /\ Shaped(AnswerData)) =>
        LET d == AnswerData.v
            r == data.val
        IN  /\ data.ok
            /\ DOMAIN r = DOMAIN SourceKey
                            \cup {"GSTIN", "Principal_Place", "Nature_of_Business"}
            /\ Cardinality(DOMAIN r) = 13
            /\ r["GSTIN"] = JStr(Current)
            /\ \A f \in DOMAIN SourceKey :
                  r[f] = IF SourceKey[f] \in DOMAIN d THEN d[SourceKey[f]] ELSE JStr(<<>>)
            /\ r["Principal_Place"] =
                  IF "pradr" \in DOMAIN d /\ "addr" \in DOMAIN d["pradr"].v
                  THEN d["pradr"].v["addr"]
                  ELSE JStr(<<>>)
            /\ r["Nature_of_Business"] =
                  IF "nba" \in DOMAIN d THEN JStr(CommaJoined(d["nba"].v)) ELSE JStr(<<>>)

\* the lookup returned on a truthy flag and a data object that has sts,
\* pradr with addr and two nba items but neither lgnm nor cxdt
C7_Witness ==
    /\ pc = "append"
    /\ AnsweredObject /\ TruthyFlag /\ Shaped(AnswerData)
    /\ DOMAIN AnswerData.v = {"sts", "pradr", "nba", "tradeNam"}
    /\ data.val["Nature_of_Business"] =
          JStr(<<"R", "e", "t", "a", "i", "l", ",", " ",
                 "W", "h", "o", "l", "e", "s", "a", "l", "e">>)
    /\ data.val["Principal_Place"] = MainSt
    /\ data.val["Legal_Name"] = JStr(<<>>)

-----------------------------------------------------------------------------
(* C8 *)

MissingColumn ==
    uploaded_file.present /\ uploaded_file.readable
        /\ "GSTIN" \notin DOMAIN uploaded_file.df

MissingCredential == api_key = <<>>

\* C8: when the uploaded sheet has no column named GSTIN, or no credential
\* has been entered, the run halts before any network call: no lookup is
\* issued and no ResultSet or report is produced.
C8_FatalErrorsHaltBeforeNetwork ==
    (pc # "idle" /\ (MissingColumn \/ MissingCredential)) =>
        /\ calls = <<>>
        /\ net = NoNet
        /\ ~has_results
        /\ results = <<>>
        /\ ~sheet.written
        /\ pc \in {"done", "stopped"}
        /\ (MissingColumn /\ ~MissingCredential) =>
              (pc = "stopped" /\ alert = "missing_column")
        /\ (MissingCredential /\ uploaded_file.present) => alert = "missing_key"

\* the run stopped on a sheet whose identifiers are under the header gstin
C8_Witness ==
    /\ pc = "stopped"
    /\ alert = "missing_column"
    /\ api_key # <<>>
    /\ "gstin" \in DOMAIN uploaded_file.df
    /\ \E i \in 1..Len(uploaded_file.df["gstin"]) : ~uploaded_file.df["gstin"][i].nan

-----------------------------------------------------------------------------
(* C9 *)

\* the text "Validating <g> (<k>/<n>)" for k, n below 100
TwoDigits(n) ==
    LET d == <<"0", "1", "2", "3", "4", "5", "6", "7", "8", "9">>
    IN  IF n < 10 THEN <<d[n + 1]>> ELSE <<d[(n \div 10) + 1], d[(n % 10) + 1]>>

Announcement(g, k, n) ==
    <<"V", "a", "l", "i", "d", "a", "t", "i", "n", "g", " ">> \o g \o <<" ", "(">>
        \o TwoDigits(k) \o <<"/">> \o TwoDigits(n) \o <<")">>

\* C9: progress is emitted after each completed lookup, never before that
\* lookup's record is appended; the value after item k of n is
\* floor(k / n * 100); the values never decrease and the last one is 100;
\* the status message naming identifier k and k/n is emitted before the
\* lookup of identifier k starts.  (The first entry of progressLog is the
\* initial 0 of line 82.)
C9_ProgressIsFloorOfPercentage ==
    has_results =>
        /\ \A k \in 1..(Len(progressLog) - 1) :
              progressLog[k + 1] = (k * 100) \div Len(gstins)
        /\ \A k \in 1..(Len(progressLog) - 1) : progressLog[k] <= progressLog[k + 1]
        /\ Len(progressLog) - 1 <= Len(results)
        /\ (Completed /\ Len(gstins) > 0) => progressLog[Len(progressLog)] = 100
        /\ Len(calls) <= Len(statusLog)
        /\ \A k \in 1..Len(statusLog) :
              statusLog[k] = Announcement(gstins[k], k, Len(gstins))

-----------------------------------------------------------------------------
(* C10 *)

\* the length of the text of a cell; a blank cell has none
TextLen(x) ==
    CASE x.t = "null" -> 0
      [] x.t = "str" -> Len(x.v)

Blank == JNull

\* C10: the worksheet has one data row per record, in ResultSet order,
\* below one header row; its columns are the union of the fields of the
\* records; a field a record lacks gives a blank cell; the width of each
\* column is the length of its longest cell text, header included, plus 2,
\* whatever the other columns hold.
C10_Worksheet ==
    sheet.written =>
        LET cols == sheet.columns
            J == 1..Len(cols)
            I == 1..Len(results)
        IN  /\ Len(sheet.rows) = Len(results)
            /\ {cols[j] : j \in J} = UNION {DOMAIN results[i] : i \in I}
            /\ Cardinality({cols[j] : j \in J}) = Len(cols)
            /\ Len(sheet.header) = Len(cols)
            /\ Len(sheet.widths) = Len(cols)
            /\ \A j \in J : sheet.header[j] = JStr(ColumnText[cols[j]])
            /\ \A i \in I : Len(sheet.rows[i]) = Len(cols)
            /\ \A i \in I, j \in J :
                  sheet.rows[i][j] =
                      IF cols[j] \in DOMAIN results[i] THEN results[i][cols[j]] ELSE Blank
            /\ \A j \in J :
                  sheet.widths[j] =
                      MaxOf({TextLen(sheet.header[j])}
                                \cup {TextLen(sheet.rows[i][j]) : i \in I}) + 2

\* a report of three records: a failure, whose row is blank beyond Status,
\* a full success, and a success whose data had sts and stcd only
C10_Witness ==
    /\ sheet.written
    /\ Len(sheet.rows) = 3
    /\ Len(sheet.columns) = 13
    /\ DOMAIN results[1] = {"GSTIN", "Status"}
    /\ sheet.rows[1][3] = Blank
    /\ Cardinality(DOMAIN results[2]) = 13
    /\ results[2]["Legal_Name"] # JStr(<<>>)
    /\ Cardinality(DOMAIN results[3]) = 13
    /\ results[3]["Legal_Name"] = JStr(<<>>)
    /\ sheet.widths[1] = 7
    /\ sheet.widths[2] = 21
    /\ sheet.widths[3] = 12

====
